---------------------------- MODULE Spec2Model ----------------------------
(***************************************************************************)
(* The RAG application: the ingest pipeline rag_ingest_pdf (load-and-chunk,*)
(* embed-and-upsert) and the query pipeline rag_query_pdf_ai               *)
(* (embed-and-search, llm-answer-bedrock) of src/main.py, with the loader  *)
(* and the embedding client of src/data_loader.py.                         *)
(*                                                                         *)
(* The handlers run their step functions through ctx.step.run of the       *)
(* inngest library, and keep their records in QdrantStorage (vector_db.py).*)
(* Neither is among the source files: the step executor is modelled from   *)
(* section 4.5/5/7 of the specification, the vector store from section 4.3.*)
(***************************************************************************)
EXTENDS Integers, Sequences, FiniteSets, TLC

(* ------------------------------ bounds -------------------------------- *)

\* The attempt ceiling of the orchestrator (create_function sets no retries:
\* the ceiling is the executor's configuration).
MaxAttempts == 2

\* How many executions of the handlers may be in flight at once, of one run
\* (a retry or a duplicate delivery overlapping a slow execution) or of
\* several: the workers that serve the executor's calls.
MaxExecs == 2

(* --------------------------- program constants ------------------------ *)

\* main.py:83   int(ctx.event.data.get("top_k", 5))
DefaultTopK == 5

\* uuid.NAMESPACE_URL
NAMESPACE_URL == "NAMESPACE_URL"

\* Python's None, as a value that compares with an embedding vector.
None == <<>>

(* ------------------------------ inputs --------------------------------- *)

\* The runs: one per triggering event.
Runs == {"r1", "r2"}

Paths == {"a.pdf", "b.pdf", "c.pdf"}

\* What PDFReader().load_data(file=path) finds: no readable file, or the
\* documents (pages) of the file, each with its text.  A page's text is
\* written as the sequence of the pieces the splitter cuts it in; <<>> is a
\* page without text.
Missing == [readable |-> FALSE]
FileA == [readable |-> TRUE, docs |-> << [text |-> <<"t1", "t2">>] >>]
FileB == [readable |-> TRUE, docs |-> << [text |-> <<>>], [text |-> <<"t2">>] >>]
Files == [p \in Paths |-> IF p = "a.pdf" THEN FileA
                          ELSE IF p = "b.pdf" THEN FileB ELSE Missing]

\* The events: the name that triggers a function, and ctx.event.data.
IngestEvents ==
    { [name |-> "rag/ingest_pdf", data |-> d] :
        d \in { [pdf_path |-> "a.pdf"],
                [pdf_path |-> "b.pdf"],
                [pdf_path |-> "b.pdf", source_id |-> "a.pdf"],
                [pdf_path |-> "c.pdf"] } }

QueryEvents ==
    { [name |-> "rag/query_pdf_ai", data |-> d] :
        d \in { [question |-> "q"],
                [question |-> "q", top_k |-> 1] } }

\* The answers of the embedding provider to one invoke_model call: a body
\* with an "embedding", a body without one, or an exception.
EmbedResponses == {"embedding", "no_embedding", "exception"}

\* Texts as sequences of characters, for strip().
Blank == " "
LlmTexts == { <<Blank>>, <<Blank, "a", Blank>> }

\* The bodies the generation provider may answer with.
LlmResponses ==
    { [content |-> << [text |-> t] >>] : t \in LlmTexts }
    \cup { [content |-> <<>>], [message |-> "throttled"] }

(* ------------------------------ state ---------------------------------- *)

VARIABLES
    files,      \* path -> Missing or the documents of the file (never written)
    event,      \* run -> ctx.event
    steps,      \* run -> step name -> Step Record [status, result, attempt]
    waiting,    \* run -> executions that entered the handler and are at its next step
    running,    \* run -> executions inside the function of the run's current step
    out,        \* run -> what the function in flight was given and returned or
                \*        raised, and what its call of embed_texts was given and
                \*        returned
    store,      \* the vector store: id -> [vector, payload]
    calls,      \* run -> step name -> how often the step's function was invoked
    run_state,  \* run -> "active" | "succeeded" | "failed"
    result,     \* run -> what the handler returned
    body_fails  \* run -> failed attempts of the handler's own code

vars == <<files, event, steps, waiting, running, out, store, calls,
          run_state, result, body_fails>>


(* ------------------------------ helpers -------------------------------- *)

\* dict.get(k, default)
Get(d, k, default) == IF k \in DOMAIN d THEN d[k] ELSE default

Range(f) == { f[i] : i \in DOMAIN f }

Min(a, b) == IF a <= b THEN a ELSE b

\* int(x), of a value that is an integer already
int(x) == x

\* What a Python function call comes to: a value returned or an exception.
Returned(v) == [raised |-> FALSE, value |-> v]
Raised(e) == [raised |-> TRUE, value |-> [error |-> e]]

(* --------------------------- data_loader.py ---------------------------- *)

\* splitter.split_text(t): the pieces of a text (the splitter is llama_index's).
split_text(t) == t

RECURSIVE extend_chunks(_, _)
\* for t in texts: chunks.extend(splitter.split_text(t))
extend_chunks(texts, chunks) ==
    IF texts = <<>> THEN chunks
    ELSE extend_chunks(Tail(texts), chunks \o split_text(Head(texts)))

RECURSIVE doc_texts(_)
\* [d.text for d in docs if getattr(d, "text", None)]
doc_texts(docs) ==
    IF docs = <<>> THEN <<>>
    ELSE LET d == Head(docs)
             text == Get(d, "text", None)
         IN (IF text # None /\ text # <<>> THEN <<text>> ELSE <<>>)
                \o doc_texts(Tail(docs))

load_and_chunk_pdf(path) ==
    IF ~files[path].readable
    THEN Raised("FileNotFoundError")
    ELSE LET docs == files[path].docs
             texts == doc_texts(docs)
         IN Returned(extend_chunks(texts, <<>>))

\* The embedding the model computes for a text.
Vec(text) == <<"vec", text>>

RECURSIVE embed_loop(_, _, _, _)
\* The loop of embed_texts from text i on; responses[i] is the provider's
\* answer to the call for texts[i].
embed_loop(texts, responses, i, all_embeddings) ==
    IF i > Len(texts) THEN Returned(all_embeddings)
    ELSE IF responses[i] = "exception" THEN Raised("ClientError")
    ELSE LET response_body ==
                 IF responses[i] = "embedding"
                 THEN [embedding |-> Vec(texts[i])]
                 ELSE [message |-> "no embedding"]
             embedding == Get(response_body, "embedding", None)
         IN embed_loop(texts, responses, i + 1, Append(all_embeddings, embedding))

\* Mutant of embed_texts: every embedding is put in front of the list
\* (insert(0, embedding)), which comes out in reverse order.
embed_texts_prepend(texts, responses) ==
    LET r == embed_loop(texts, responses, 1, <<>>)
    IN IF r.raised THEN r
       ELSE Returned([i \in 1..Len(r.value) |-> r.value[Len(r.value) + 1 - i]])

embed_texts(texts, responses) == embed_loop(texts, responses, 1, <<>>)

\* embed_texts together with the record of the call.
EmbedCall(texts, responses) ==
    LET r == embed_texts(texts, responses)
    IN [texts |-> texts, raised |-> r.raised, value |-> r.value]

(* ------------------------ vector_db.QdrantStorage ---------------------- *)

\* An EmbeddingVector, as opposed to None.
IsVector(v) == v # None

\* upsert(ids, vectors, payloads): every record is written under its id,
\* over any record the id had; a fault or a record that is no IndexRecord is
\* a StoreFailure and writes nothing.
QdrantUpsert(st, ids, vectors, payloads, fault) ==
    IF fault \/ \E i \in DOMAIN vectors : ~IsVector(vectors[i])
    THEN [raised |-> TRUE, store |-> st]
    ELSE LET last(id) == CHOOSE i \in DOMAIN ids :
                              /\ ids[i] = id
                              /\ \A j \in DOMAIN ids : ids[j] = id => j <= i
         IN [raised |-> FALSE,
             store |-> [id \in DOMAIN st \cup Range(ids) |->
                          IF id \in Range(ids)
                          THEN [vector |-> vectors[last(id)],
                                payload |-> payloads[last(id)]]
                          ELSE st[id]]]

\* The similarity of a stored vector to the query vector.
Score(query, vector) == IF vector[2] = "t1" THEN 2 ELSE 1

\* The rankings search may return: min(top_k, records) distinct ids, by
\* non-increasing score, none of the left-out records scoring higher.
Rankings(st, query, top_k) ==
    LET n == Min(top_k, Cardinality(DOMAIN st))
    IN { ids \in [1..n -> DOMAIN st] :
           /\ \A i, j \in 1..n : i < j =>
                 /\ ids[i] # ids[j]
                 /\ Score(query, st[ids[i]].vector) >= Score(query, st[ids[j]].vector)
           /\ \A id \in DOMAIN st \ Range(ids) : \A i \in 1..n :
                 Score(query, st[id].vector) <= Score(query, st[ids[i]].vector) }

\* search(query_vector, top_k): the found records' texts and sources, aligned.
QdrantSearch(st, query_vector, top_k, fault) ==
    IF fault \/ ~IsVector(query_vector)
    THEN { Raised("StoreFailure") }
    ELSE { Returned([contexts |-> [i \in DOMAIN ids |-> st[ids[i]].payload.text],
                     sources |-> [i \in DOMAIN ids |-> st[ids[i]].payload.source]]) :
             ids \in Rankings(st, query_vector, top_k) }


(* ------------------ the step executor (ctx.step.run) ------------------- *)

IngestSteps == <<"load-and-chunk", "embed-and-upsert">>
QuerySteps == <<"embed-and-search", "llm-answer-bedrock">>
\* trigger=inngest.TriggerEvent(event=...): the function an event runs.
IngestRuns == { r \in Runs : event[r].name = "rag/ingest_pdf" }
QueryRuns == { r \in Runs : event[r].name = "rag/query_pdf_ai" }

StepsOf(r) == IF r \in IngestRuns THEN IngestSteps ELSE QuerySteps

NoResult == [none |-> TRUE]
\* No call of embed_texts.
NoEmbed == [texts |-> <<>>, raised |-> FALSE, value |-> <<>>]

Idle == [kind |-> "idle", value |-> NoResult, embedded |-> NoEmbed,
         given |-> NoResult]

\* The Step Record of (r, s) says succeeded: step.run returns its result.
Cached(r, s) == steps[r][s].status = "succeeded"

\* The step an execution of run r is at: the first one not succeeded.
CurrentStep(r) ==
    IF ~Cached(r, StepsOf(r)[1]) THEN StepsOf(r)[1]
    ELSE IF ~Cached(r, StepsOf(r)[2]) THEN StepsOf(r)[2]
    ELSE "none"

\* What a step function came to, for the executor: its value or its error,
\* the store it left and its call of embed_texts.
Ok(v, st, emb) == [kind |-> "ok", value |-> v, store |-> st, embedded |-> emb]
Error(e, st, emb) == [kind |-> "error", value |-> e, store |-> st, embedded |-> emb]

RECURSIVE InFlight(_)
\* The executions in flight of the runs in S.
InFlight(S) ==
    IF S = {} THEN 0
    ELSE LET r == CHOOSE x \in S : TRUE
         IN waiting[r] + running[r] + InFlight(S \ {r})

\* The orchestrator starts an execution of the handler for run r (the first
\* one, a retry, or a duplicate delivery), a worker being free.
Enter(r) ==
    /\ run_state[r] = "active"
    /\ InFlight(Runs) < MaxExecs
    /\ waiting' = [waiting EXCEPT ![r] = @ + 1]
    /\ UNCHANGED <<files, event, steps, running, out, store, calls,
                   run_state, result, body_fails>>

\* Mutant of StepRun: no compare-and-set, an execution takes a step that
\* another execution holds.
StepRunNoLock(r, s, given, outcomes) ==
    /\ run_state[r] = "active"
    /\ waiting[r] > 0
    /\ ~Cached(r, s)
    /\ \E o \in outcomes :
          /\ out' = [out EXCEPT ![r] = [kind |-> o.kind, value |-> o.value,
                                        embedded |-> o.embedded,
                                        given |-> given]]
          /\ store' = o.store
    /\ steps' = [steps EXCEPT ![r][s].status = "pending"]
    /\ waiting' = [waiting EXCEPT ![r] = @ - 1]
    /\ running' = [running EXCEPT ![r] = @ + 1]
    /\ calls' = [calls EXCEPT ![r][s] = @ + 1]
    /\ UNCHANGED <<files, event, run_state, result, body_fails>>

\* Mutant of StepRun: a retry leaves the Step Record failed while its
\* function runs.
StepRunKeepsStatus(r, s, given, outcomes) ==
    /\ run_state[r] = "active"
    /\ waiting[r] > 0
    /\ ~Cached(r, s)
    /\ running[r] = 0
    /\ \E o \in outcomes :
          /\ out' = [out EXCEPT ![r] = [kind |-> o.kind, value |-> o.value,
                                        embedded |-> o.embedded,
                                        given |-> given]]
          /\ store' = o.store
    /\ waiting' = [waiting EXCEPT ![r] = @ - 1]
    /\ running' = [running EXCEPT ![r] = @ + 1]
    /\ calls' = [calls EXCEPT ![r][s] = @ + 1]
    /\ UNCHANGED <<files, event, steps, run_state, result, body_fails>>

\* step.run(s, lambda: fn(given)) of an execution of run r, for a step that
\* has not succeeded: the execution takes the step (no other execution holds
\* it) and invokes fn with what the handler gives it, which comes to one of
\* `outcomes`.
StepRun(r, s, given, outcomes) ==
    /\ run_state[r] = "active"
    /\ waiting[r] > 0
    /\ ~Cached(r, s)
    /\ running[r] = 0
    /\ \E o \in outcomes :
          /\ out' = [out EXCEPT ![r] = [kind |-> o.kind, value |-> o.value,
                                        embedded |-> o.embedded,
                                        given |-> given]]
          /\ store' = o.store
    /\ steps' = [steps EXCEPT ![r][s].status = "pending"]
    /\ waiting' = [waiting EXCEPT ![r] = @ - 1]
    /\ running' = [running EXCEPT ![r] = @ + 1]
    /\ calls' = [calls EXCEPT ![r][s] = @ + 1]
    /\ UNCHANGED <<files, event, run_state, result, body_fails>>

\* Mutant of StepRecorded: no attempt ceiling, a failed step is retried for
\* ever.
StepRecordedNoCeiling(r, lost) ==
    LET s == CurrentStep(r)
        failed == lost \/ out[r].kind = "error"
        attempt == steps[r][s].attempt + 1
    IN /\ running[r] > 0
       /\ steps' = [steps EXCEPT ![r][s] =
                      IF failed
                      THEN [status |-> "failed", result |-> @.result, attempt |-> attempt]
                      ELSE [status |-> "succeeded", result |-> out[r].value,
                            attempt |-> @.attempt]]
       /\ running' = [running EXCEPT ![r] = @ - 1]
       /\ out' = [out EXCEPT ![r] = Idle]
       /\ UNCHANGED <<files, event, waiting, store, calls, run_state, result,
                      body_fails>>

\* The executor records what the function in flight came to: succeeded with
\* its result, or failed with one more attempt.  `lost` is an execution that
\* ends (a timeout, a crash, a lost response) after its function returned.
StepRecorded(r, lost) ==
    LET s == CurrentStep(r)
        failed == lost \/ out[r].kind = "error"
        attempt == steps[r][s].attempt + 1
    IN /\ running[r] > 0
       /\ steps' = [steps EXCEPT ![r][s] =
                      IF failed
                      THEN [status |-> "failed", result |-> @.result, attempt |-> attempt]
                      ELSE [status |-> "succeeded", result |-> out[r].value,
                            attempt |-> @.attempt]]
       /\ run_state' = [run_state EXCEPT ![r] =
                          IF failed /\ attempt >= MaxAttempts THEN "failed" ELSE @]
       /\ running' = [running EXCEPT ![r] = @ - 1]
       /\ out' = [out EXCEPT ![r] = Idle]
       /\ UNCHANGED <<files, event, waiting, store, calls, result, body_fails>>

StepComplete(r) == \E lost \in BOOLEAN : StepRecorded(r, lost)

\* The handler of an execution of run r returns `value`: the run succeeded.
Return(r, value) ==
    /\ run_state[r] = "active"
    /\ waiting[r] > 0
    /\ waiting' = [waiting EXCEPT ![r] = @ - 1]
    /\ run_state' = [run_state EXCEPT ![r] = "succeeded"]
    /\ result' = [result EXCEPT ![r] = value]
    /\ UNCHANGED <<files, event, steps, running, out, store, calls,
                   body_fails>>

\* The handler's own code raises: one more failed attempt of the run.
Raise(r) ==
    /\ run_state[r] = "active"
    /\ waiting[r] > 0
    /\ waiting' = [waiting EXCEPT ![r] = @ - 1]
    /\ body_fails' = [body_fails EXCEPT ![r] = @ + 1]
    /\ run_state' = [run_state EXCEPT ![r] =
                       IF body_fails[r] + 1 >= MaxAttempts THEN "failed" ELSE @]
    /\ UNCHANGED <<files, event, steps, running, out, store, calls,
                   result>>

\* An execution that finds its run ended stops.
Drop(r) ==
    /\ run_state[r] # "active"
    /\ waiting[r] > 0
    /\ waiting' = [waiting EXCEPT ![r] = @ - 1]
    /\ UNCHANGED <<files, event, steps, running, out, store, calls,
                   run_state, result, body_fails>>


(* ------------------------------- main.py ------------------------------- *)

\* f"{source_id}:{i}"
FString(source_id, i) == <<source_id, ":", i>>

\* str(uuid.uuid5(namespace, name)): the hash of the name in the namespace,
\* written as what it is a hash of (names that differ get ids that differ).
uuid5(namespace, name) == <<namespace, name>>

\* Mutant of ChunkIds: random ids (uuid4), none of them in the store yet.
ChunkIdsRandom(source_id, chunks) ==
    [k \in 1..Len(chunks) |->
        <<"uuid4", FString(source_id, Cardinality(DOMAIN store) + k)>>]

\* ids = [str(uuid.uuid5(uuid.NAMESPACE_URL, f"{source_id}:{i}")) for i in range(len(chunks))]
\* (chunks[k] here is Python's chunks[k - 1])
ChunkIds(source_id, chunks) ==
    [k \in 1..Len(chunks) |-> uuid5(NAMESPACE_URL, FString(source_id, k - 1))]

\* payloads = [{"source": source_id, "text": chunks[i]} for i in range(len(chunks))]
Payloads(source_id, chunks) ==
    [k \in 1..Len(chunks) |-> [source |-> source_id, text |-> chunks[k]]]

\* Mutant of Load: the event's source_id is not read, the source is always
\* the path.
LoadIgnoresSourceId(r) ==
    LET pdf_path == event[r].data.pdf_path
        source_id == pdf_path
        chunks == load_and_chunk_pdf(pdf_path)
    IN IF chunks.raised
       THEN Error(chunks.value, store, NoEmbed)
       ELSE Ok([chunks |-> chunks.value, source_id |-> source_id], store, NoEmbed)

\* rag_ingest_pdf._load
Load(r) ==
    LET pdf_path == event[r].data.pdf_path
        source_id == Get(event[r].data, "source_id", pdf_path)
        chunks == load_and_chunk_pdf(pdf_path)
    IN IF chunks.raised
       THEN Error(chunks.value, store, NoEmbed)
       ELSE Ok([chunks |-> chunks.value, source_id |-> source_id], store, NoEmbed)

\* Mutant of Upsert: every chunk is upserted as soon as it is embedded, so
\* the chunks before the one whose embedding raises are in the store.
UpsertChunkByChunk(chunks_and_src, responses, fault) ==
    LET chunks == chunks_and_src.chunks
        source_id == chunks_and_src.source_id
        vecs == EmbedCall(chunks, responses)
        ids == ChunkIds(source_id, chunks)
        payloads == Payloads(source_id, chunks)
    IN IF vecs.raised
       THEN LET p == CHOOSE i \in DOMAIN responses :
                       /\ responses[i] = "exception"
                       /\ \A j \in 1..(i - 1) : responses[j] # "exception"
                done == embed_texts(SubSeq(chunks, 1, p - 1), SubSeq(responses, 1, p - 1))
                up == QdrantUpsert(store, SubSeq(ids, 1, p - 1), done.value,
                                   SubSeq(payloads, 1, p - 1), fault)
            IN Error(vecs.value, up.store, vecs)
       ELSE LET up == QdrantUpsert(store, ids, vecs.value, payloads, fault)
            IN IF up.raised
               THEN Error(Raised("StoreFailure").value, store, vecs)
               ELSE Ok([ingested |-> Len(chunks)], up.store, vecs)

\* Mutant of Upsert: the records the store has of the source are deleted
\* before the new ones are written.
UpsertReplacesSource(chunks_and_src, responses, fault) ==
    LET chunks == chunks_and_src.chunks
        source_id == chunks_and_src.source_id
        vecs == EmbedCall(chunks, responses)
    IN IF vecs.raised THEN Error(vecs.value, store, vecs)
       ELSE LET ids == ChunkIds(source_id, chunks)
                payloads == Payloads(source_id, chunks)
                others == { id \in DOMAIN store : store[id].payload.source # source_id }
                up == QdrantUpsert([id \in others |-> store[id]], ids, vecs.value,
                                   payloads, fault)
            IN IF up.raised
               THEN Error(Raised("StoreFailure").value, store, vecs)
               ELSE Ok([ingested |-> Len(chunks)], up.store, vecs)

\* rag_ingest_pdf._upsert, the embedding provider answering `responses` and
\* the store failing or not (`fault`).
Upsert(chunks_and_src, responses, fault) ==
    LET chunks == chunks_and_src.chunks
        source_id == chunks_and_src.source_id
        vecs == EmbedCall(chunks, responses)
    IN IF vecs.raised THEN Error(vecs.value, store, vecs)
       ELSE LET ids == ChunkIds(source_id, chunks)
                payloads == Payloads(source_id, chunks)
                up == QdrantUpsert(store, ids, vecs.value, payloads, fault)
            IN IF up.raised
               THEN Error(Raised("StoreFailure").value, store, vecs)
               ELSE Ok([ingested |-> Len(chunks)], up.store, vecs)

UpsertOutcomes(chunks_and_src) ==
    { Upsert(chunks_and_src, responses, fault) :
        responses \in [1..Len(chunks_and_src.chunks) -> EmbedResponses],
        fault \in BOOLEAN }

\* Mutant of rag_ingest_pdf: _load(ctx) is called outside step.run, by every
\* execution that gets to embed-and-upsert.
rag_ingest_pdf_direct_load(r) ==
    \/ StepRun(r, "load-and-chunk", event[r].data, {Load(r)})
    \/ /\ Cached(r, "load-and-chunk")
       /\ ~Cached(r, "embed-and-upsert")
       /\ run_state[r] = "active"
       /\ waiting[r] > 0
       /\ calls[r]["load-and-chunk"] <= MaxAttempts
       /\ calls' = [calls EXCEPT ![r]["load-and-chunk"] = @ + 1]
       /\ UNCHANGED <<files, event, steps, waiting, running, out, store,
                      run_state, result, body_fails>>
    \/ /\ Cached(r, "load-and-chunk")
       /\ LET chunks_and_src == steps[r]["load-and-chunk"].result
          IN StepRun(r, "embed-and-upsert", chunks_and_src,
                     UpsertOutcomes(chunks_and_src))
    \/ /\ Cached(r, "load-and-chunk")
       /\ Cached(r, "embed-and-upsert")
       /\ LET ingested == steps[r]["embed-and-upsert"].result
          IN Return(r, ingested)

\* Mutant of rag_ingest_pdf: the second step does not wait for the first
\* (its step.run is not awaited); without the first step's output the
\* batch is empty.
rag_ingest_pdf_unordered(r) ==
    \/ StepRun(r, "load-and-chunk", event[r].data, {Load(r)})
    \/ LET chunks_and_src ==
               IF Cached(r, "load-and-chunk")
               THEN steps[r]["load-and-chunk"].result
               ELSE [chunks |-> <<>>, source_id |-> event[r].data.pdf_path]
       IN StepRun(r, "embed-and-upsert", chunks_and_src,
                  UpsertOutcomes(chunks_and_src))
    \/ /\ Cached(r, "load-and-chunk")
       /\ Cached(r, "embed-and-upsert")
       /\ LET ingested == steps[r]["embed-and-upsert"].result
          IN Return(r, ingested)

\* rag_ingest_pdf: what an execution of the handler does next, the steps
\* that succeeded returning their results at once.
rag_ingest_pdf(r) ==
    \/ StepRun(r, "load-and-chunk", event[r].data, {Load(r)})
    \/ /\ Cached(r, "load-and-chunk")
       /\ LET chunks_and_src == steps[r]["load-and-chunk"].result
          IN StepRun(r, "embed-and-upsert", chunks_and_src,
                     UpsertOutcomes(chunks_and_src))
    \/ /\ Cached(r, "load-and-chunk")
       /\ Cached(r, "embed-and-upsert")
       /\ LET ingested == steps[r]["embed-and-upsert"].result
          IN Return(r, ingested)

\* Mutant of Search: the caller's top_k is dropped, search gets the default.
SearchDefaultTopK(question, top_k, responses, fault) ==
    LET vecs == EmbedCall(<<question>>, responses)
    IN IF vecs.raised THEN { Error(vecs.value, store, vecs) }
       ELSE LET query_vec == vecs.value[1]
            IN { IF found.raised
                 THEN Error(found.value, store, vecs)
                 ELSE Ok([contexts |-> found.value.contexts,
                          sources |-> found.value.sources], store, vecs) :
                   found \in QdrantSearch(store, query_vec, DefaultTopK, fault) }

\* Mutant of Search: the sources are projected from the wrong key of what
\* search found.
SearchSourcesFromContexts(question, top_k, responses, fault) ==
    LET vecs == EmbedCall(<<question>>, responses)
    IN IF vecs.raised THEN { Error(vecs.value, store, vecs) }
       ELSE LET query_vec == vecs.value[1]
            IN { IF found.raised
                 THEN Error(found.value, store, vecs)
                 ELSE Ok([contexts |-> found.value.contexts,
                          sources |-> found.value.contexts], store, vecs) :
                   found \in QdrantSearch(store, query_vec, top_k, fault) }

\* rag_query_pdf_ai._search
Search(question, top_k, responses, fault) ==
    LET vecs == EmbedCall(<<question>>, responses)
    IN IF vecs.raised THEN { Error(vecs.value, store, vecs) }
       ELSE LET query_vec == vecs.value[1]
            IN { IF found.raised
                 THEN Error(found.value, store, vecs)
                 ELSE Ok([contexts |-> found.value.contexts,
                          sources |-> found.value.sources], store, vecs) :
                   found \in QdrantSearch(store, query_vec, top_k, fault) }

SearchOutcomes(question, top_k) ==
    UNION { Search(question, top_k, responses, fault) :
              responses \in [1..1 -> EmbedResponses], fault \in BOOLEAN }

\* "\n\n".join(f"- {c}" for c in found.contexts), as the list of its lines
ContextBlock(contexts) == [i \in DOMAIN contexts |-> <<"- ", contexts[i]>>]

\* rag_query_pdf_ai._invoke_llm: json.loads of whatever body the provider
\* answers with, or the client's exception.
InvokeLlm(context_block, question) ==
    { Error(Raised("ClientError").value, store, NoEmbed) }
    \cup { Ok(body, store, NoEmbed) : body \in LlmResponses }

RECURSIVE lstrip(_)
lstrip(s) == IF s # <<>> /\ Head(s) = Blank THEN lstrip(Tail(s)) ELSE s

RECURSIVE rstrip(_)
rstrip(s) ==
    IF s # <<>> /\ s[Len(s)] = Blank THEN rstrip(SubSeq(s, 1, Len(s) - 1)) ELSE s

\* str.strip()
strip(s) == rstrip(lstrip(s))

\* Mutant of rag_query_pdf_ai: a search that found nothing ends the run with
\* an empty answer, the generation step skipped.
rag_query_pdf_ai_short_circuit(r) ==
    LET question == event[r].data.question
        top_k == int(Get(event[r].data, "top_k", DefaultTopK))
    IN \/ StepRun(r, "embed-and-search", [question |-> question, top_k |-> top_k],
                  SearchOutcomes(question, top_k))
       \/ /\ Cached(r, "embed-and-search")
          /\ steps[r]["embed-and-search"].result.contexts = <<>>
          /\ Return(r, [answer |-> <<>>, sources |-> <<>>, num_contexts |-> 0])
       \/ /\ Cached(r, "embed-and-search")
          /\ steps[r]["embed-and-search"].result.contexts # <<>>
          /\ LET found == steps[r]["embed-and-search"].result
                 context_block == ContextBlock(found.contexts)
             IN StepRun(r, "llm-answer-bedrock",
                        [context_block |-> context_block, question |-> question],
                        InvokeLlm(context_block, question))
       \/ /\ Cached(r, "embed-and-search")
          /\ Cached(r, "llm-answer-bedrock")
          /\ LET found == steps[r]["embed-and-search"].result
                 res == steps[r]["llm-answer-bedrock"].result
                 content == Get(res, "content", << <<>> >>)
             IN IF content = <<>>
                THEN Raise(r)
                ELSE LET answer == strip(Get(content[1], "text", <<>>))
                     IN Return(r, [answer |-> answer, sources |-> found.sources,
                                   num_contexts |-> Len(found.contexts)])

\* rag_query_pdf_ai: what an execution of the handler does next.
rag_query_pdf_ai(r) ==
    LET question == event[r].data.question
        top_k == int(Get(event[r].data, "top_k", DefaultTopK))
    IN \/ StepRun(r, "embed-and-search", [question |-> question, top_k |-> top_k],
                  SearchOutcomes(question, top_k))
       \/ /\ Cached(r, "embed-and-search")
          /\ LET found == steps[r]["embed-and-search"].result
                 context_block == ContextBlock(found.contexts)
             IN StepRun(r, "llm-answer-bedrock",
                        [context_block |-> context_block, question |-> question],
                        InvokeLlm(context_block, question))
       \/ /\ Cached(r, "embed-and-search")
          /\ Cached(r, "llm-answer-bedrock")
          /\ LET found == steps[r]["embed-and-search"].result
                 res == steps[r]["llm-answer-bedrock"].result
                 content == Get(res, "content", << <<>> >>)
             IN IF content = <<>>
                THEN Raise(r)
                ELSE LET answer == strip(Get(content[1], "text", <<>>))
                     IN Return(r, [answer |-> answer, sources |-> found.sources,
                                   num_contexts |-> Len(found.contexts)])

(* ---------------------------- specification ---------------------------- *)

Init ==
    /\ files = Files
    /\ event \in { e \in [Runs -> IngestEvents \cup QueryEvents] :
                     e["r1"].data = [pdf_path |-> "a.pdf"] }
    /\ steps = [r \in Runs |-> [s \in Range(StepsOf(r)) |->
                  [status |-> "pending", result |-> NoResult, attempt |-> 0]]]
    /\ waiting = [r \in Runs |-> 0]
    /\ running = [r \in Runs |-> 0]
    /\ out = [r \in Runs |-> Idle]
    /\ store = <<>>
    /\ calls = [r \in Runs |-> [s \in Range(StepsOf(r)) |-> 0]]
    /\ run_state = [r \in Runs |-> "active"]
    /\ result = [r \in Runs |-> NoResult]
    /\ body_fails = [r \in Runs |-> 0]

Handler(r) == IF r \in IngestRuns THEN rag_ingest_pdf(r) ELSE rag_query_pdf_ai(r)

Next ==
    \E r \in Runs :
        \/ Enter(r)
        \/ Handler(r)
        \/ StepComplete(r)
        \/ Drop(r)

Spec == Init /\ [][Next]_vars

\* The runs of the liveness check: beside the ingest of a.pdf, an ingest
\* whose file is missing or a query.
FairInit ==
    /\ Init
    /\ event["r2"].data \in { [pdf_path |-> "c.pdf"], [question |-> "q", top_k |-> 1] }

\* The orchestrator keeps scheduling: some enabled step is eventually taken.
FairSpec == FairInit /\ [][Next]_vars /\ WF_vars(Next)


(* ------------------------------- claims -------------------------------- *)

\* What a claim expects, stated without the definitions above.

\* hash(sourceId + ":" + index), index counted from 0
ExpectedId(source_id, index) == <<NAMESPACE_URL, <<source_id, ":", index>>>>

\* The record a failure-free embed-and-upsert writes for chunk k of a batch.
ExpectedRecord(batch, k) ==
    [vector |-> <<"vec", batch.chunks[k]>>,
     payload |-> [source |-> batch.source_id, text |-> batch.chunks[k]]]

\* The output load-and-chunk recorded for run r.
Batch(r) == steps[r]["load-and-chunk"].result

\* The top_k of query run r: the event's, 5 without one.
TopKOf(r) == IF "top_k" \in DOMAIN event[r].data THEN event[r].data.top_k ELSE 5

\* C1: an ingest run whose input (source and chunks) is that of an ingest run
\* that succeeded before leaves the store with the same ids and the same
\* number of records: its embed-and-upsert overwrites and adds nothing.
C1_ReingestAddsNothing ==
    [][\A r, r2 \in IngestRuns :
          ( /\ r # r2
            /\ run_state[r2] = "succeeded"
            /\ Cached(r, "load-and-chunk")
            /\ Batch(r) = Batch(r2)
            /\ calls'[r]["embed-and-upsert"] = calls[r]["embed-and-upsert"] + 1 )
          => /\ DOMAIN store' = DOMAIN store
             /\ Cardinality(DOMAIN store') = Cardinality(DOMAIN store)]_vars

\* Both runs ingested the same non-empty batch, one call of embed-and-upsert
\* each, and the store holds one record per chunk.
C1_Witness ==
    /\ \A r \in Runs : r \in IngestRuns /\ run_state[r] = "succeeded"
                        /\ calls[r]["embed-and-upsert"] = 1
    /\ Batch("r1") = Batch("r2")
    /\ Len(Batch("r1").chunks) = 2
    /\ Cardinality(DOMAIN store) = 2

\* C2: a step that succeeded is never invoked again and keeps its result; in
\* particular once the second step of a run failed, a retry invokes the
\* first step's function no more.
C2_SucceededStepNotReinvoked ==
    [][\A r \in Runs :
          /\ \A s \in DOMAIN steps[r] :
                Cached(r, s) => /\ calls'[r][s] = calls[r][s]
                                /\ steps'[r][s].result = steps[r][s].result
          /\ steps[r][StepsOf(r)[2]].attempt > 0
                => calls'[r][StepsOf(r)[1]] = calls[r][StepsOf(r)[1]]]_vars

\* The first step succeeded in one call, the second failed and is invoked
\* again.
C2_Witness ==
    \E r \in Runs :
        /\ Cached(r, StepsOf(r)[1])
        /\ calls[r][StepsOf(r)[1]] = 1
        /\ steps[r][StepsOf(r)[2]].attempt = 1
        /\ calls[r][StepsOf(r)[2]] = 2

\* C3: a Step Record goes pending -> succeeded, pending -> failed or
\* failed -> pending only, and a succeeded one never changes.
C3_StepRecordTransitions ==
    [][\A r \in Runs : \A s \in DOMAIN steps[r] :
          /\ steps'[r][s].status # steps[r][s].status
                => <<steps[r][s].status, steps'[r][s].status>> \in
                      { <<"pending", "succeeded">>, <<"pending", "failed">>,
                        <<"failed", "pending">> }
          /\ steps[r][s].status = "succeeded" => steps'[r][s] = steps[r][s]]_vars

\* A step that failed once, was retried and succeeded.
C3_Witness ==
    \E r \in Runs : \E s \in DOMAIN steps[r] :
        steps[r][s].status = "succeeded" /\ steps[r][s].attempt = 1

\* C4: at most one execution is inside the function of a step instance, and
\* every invocation is one attempt's: the failed attempts, plus the one in
\* flight or succeeded.
C4_OneExecutionInvokes ==
    \A r \in Runs :
        /\ running[r] <= 1
        /\ \A s \in DOMAIN steps[r] :
              calls[r][s] = steps[r][s].attempt
                 + (IF Cached(r, s) \/ (running[r] > 0 /\ CurrentStep(r) = s)
                    THEN 1 ELSE 0)

\* One execution is inside the step's function while a second execution of
\* the run is at the same step.
C4_Witness ==
    \E r \in Runs : running[r] = 1 /\ waiting[r] = 1 /\ out[r].kind = "ok"

\* C5: every stored record is one a failure-free embed-and-upsert of some
\* run writes (its id the hash of source and index, its vector and payload
\* those of the chunk), and an ingest run that succeeded, retried or not,
\* has a record under each of its ids: a retry duplicates nothing.
C5_RetryDuplicatesNothing ==
    /\ \A id \in DOMAIN store :
          \E r \in IngestRuns :
              /\ Cached(r, "load-and-chunk")
              /\ \E k \in 1..Len(Batch(r).chunks) :
                    /\ id = ExpectedId(Batch(r).source_id, k - 1)
                    /\ store[id] = ExpectedRecord(Batch(r), k)
    /\ \A r \in IngestRuns :
          run_state[r] = "succeeded"
             => \A k \in 1..Len(Batch(r).chunks) :
                   ExpectedId(Batch(r).source_id, k - 1) \in DOMAIN store

\* A run succeeded after a failed attempt of embed-and-upsert, and a run's
\* embed-and-upsert is recorded failed with its records written.
C5_Witness ==
    /\ \E r \in IngestRuns :
          /\ run_state[r] = "succeeded"
          /\ steps[r]["embed-and-upsert"].attempt = 1
          /\ Len(Batch(r).chunks) > 0
    /\ \E r \in IngestRuns :
          /\ Cached(r, "load-and-chunk")
          /\ Batch(r).source_id = "b.pdf"
          /\ steps[r]["embed-and-upsert"].status = "failed"
          /\ ExpectedId("b.pdf", 0) \in DOMAIN store

\* C6: the generation step succeeds only with a response that holds a
\* non-empty answer text, and a query run that succeeded has a non-empty
\* answer.
C6_AnswerValidated ==
    \A r \in QueryRuns :
        /\ Cached(r, "llm-answer-bedrock")
              => LET res == steps[r]["llm-answer-bedrock"].result
                 IN /\ "content" \in DOMAIN res
                    /\ res.content # <<>>
                    /\ "text" \in DOMAIN res.content[1]
                    /\ \E i \in DOMAIN res.content[1].text :
                          res.content[1].text[i] # Blank
        /\ run_state[r] = "succeeded" => result[r].answer # <<>>

\* C7: with a missing file, load-and-chunk is invoked once at most,
\* embed-and-upsert never, and the run has failed as soon as the load has.
C7_LoadFailsFast ==
    \A r \in IngestRuns :
        ~files[event[r].data.pdf_path].readable
           => /\ calls[r]["load-and-chunk"] <= 1
              /\ calls[r]["embed-and-upsert"] = 0
              /\ steps[r]["load-and-chunk"].status = "failed"
                    => run_state[r] = "failed"

\* C8: a call of embed_texts that returns, returns the embedding vector of
\* each text, in order: no vector is missing or a placeholder.
C8_EmbedAllOrFail ==
    \A r \in Runs :
        ~out[r].embedded.raised
           => /\ Len(out[r].embedded.value) = Len(out[r].embedded.texts)
              /\ \A i \in DOMAIN out[r].embedded.texts :
                    out[r].embedded.value[i] = <<"vec", out[r].embedded.texts[i]>>

\* C9: no attempt counter passes the ceiling, a run whose counter reached it
\* has failed, a failed run is not run again, and every run ends succeeded
\* or failed.
C9_RunsEnd ==
    /\ [](\A r \in Runs :
            /\ body_fails[r] <= MaxAttempts
            /\ \A s \in DOMAIN steps[r] :
                  /\ steps[r][s].attempt <= MaxAttempts
                  /\ steps[r][s].attempt >= MaxAttempts => run_state[r] = "failed")
    /\ [][\A r \in Runs :
            run_state[r] = "failed"
               => /\ run_state'[r] = "failed"
                  /\ calls'[r] = calls[r]
                  /\ steps'[r] = steps[r]]_vars
    /\ \A r \in Runs : <>[](run_state[r] \in {"succeeded", "failed"})

\* A run failed for good at the ceiling, its second step never invoked.
C9_Witness ==
    \E r \in Runs :
        /\ run_state[r] = "failed"
        /\ steps[r][StepsOf(r)[1]].attempt = MaxAttempts
        /\ calls[r][StepsOf(r)[1]] = MaxAttempts
        /\ calls[r][StepsOf(r)[2]] = 0

\* C10: a search that returns, returns min(top_k, records in the store)
\* contexts, and the num_contexts of a query result is the number of
\* contexts its search found, top_k at most.
C10_NumContexts ==
    /\ [][\A r \in QueryRuns :
            ( /\ calls'[r]["embed-and-search"] = calls[r]["embed-and-search"] + 1
              /\ out'[r].kind = "ok" )
            => Len(out'[r].value.contexts) =
                  (IF TopKOf(r) <= Cardinality(DOMAIN store)
                   THEN TopKOf(r) ELSE Cardinality(DOMAIN store))]_vars
    /\ [](\A r \in QueryRuns :
            run_state[r] = "succeeded"
               => /\ result[r].num_contexts =
                        Len(steps[r]["embed-and-search"].result.contexts)
                  /\ result[r].num_contexts <= TopKOf(r))

\* A query with top_k = 1 over a store of two records returned one context.
C10_Witness ==
    \E r \in QueryRuns :
        /\ run_state[r] = "succeeded"
        /\ TopKOf(r) = 1
        /\ result[r].num_contexts = 1
        /\ Cardinality(DOMAIN store) = 2

FoundNothing(r) ==
    /\ r \in QueryRuns
    /\ Cached(r, "embed-and-search")
    /\ steps[r]["embed-and-search"].result.contexts = <<>>

\* C12: a query run whose search found no contexts goes on to the generation
\* step: the step's function is invoked in the end (the search step's record
\* never changing, from some point on every run that found nothing has had
\* it invoked), with an empty context block; the run fails only if
\* generation does, and when it succeeds its result has num_contexts = 0 and
\* no sources.
C12_ZeroContextsGenerate ==
    /\ [](\A r \in Runs : FoundNothing(r) =>
            /\ run_state[r] = "succeeded"
                  => /\ calls[r]["llm-answer-bedrock"] >= 1
                     /\ result[r].num_contexts = 0
                     /\ result[r].sources = <<>>
            /\ run_state[r] = "failed"
                  => \/ steps[r]["llm-answer-bedrock"].attempt >= MaxAttempts
                     \/ body_fails[r] >= MaxAttempts)
    /\ [][\A r \in Runs :
            ( /\ FoundNothing(r)
              /\ calls'[r]["llm-answer-bedrock"] = calls[r]["llm-answer-bedrock"] + 1 )
            => out'[r].given.context_block = <<>>]_vars
    /\ <>[](\A r \in Runs :
              FoundNothing(r) => calls[r]["llm-answer-bedrock"] >= 1)

\* A query over the empty store succeeded: no contexts, no sources, the
\* generation step invoked once.
C12_Witness ==
    \E r \in Runs :
        /\ FoundNothing(r)
        /\ store = <<>>
        /\ run_state[r] = "succeeded"
        /\ calls[r]["llm-answer-bedrock"] = 1
        /\ result[r].num_contexts = 0
        /\ result[r].sources = <<>>

\* The sourceId of ingest run r: the event's source_id, its pdf_path
\* without one.
SourceOf(r) ==
    IF "source_id" \in DOMAIN event[r].data
    THEN event[r].data.source_id ELSE event[r].data.pdf_path

\* The ids of a batch of n chunks of a source.
IdsOf(source_id, n) == { ExpectedId(source_id, i) : i \in 0..(n - 1) }

\* C14: an ingest run that succeeded over n chunks returned ingested = n,
\* its source is the event's source_id or else the pdf_path, its n ids are
\* pairwise distinct and each holds a record whose payload.source is that
\* source; the embed-and-upsert that writes n chunks into an empty store
\* leaves exactly n records (one record and ingested = 1 for one chunk).
C14_IngestedCount ==
    /\ [](\A r \in IngestRuns :
            run_state[r] = "succeeded"
               => LET n == Len(Batch(r).chunks)
                  IN /\ result[r] = [ingested |-> n]
                     /\ Batch(r).source_id = SourceOf(r)
                     /\ Cardinality(IdsOf(SourceOf(r), n)) = n
                     /\ \A id \in IdsOf(SourceOf(r), n) :
                           /\ id \in DOMAIN store
                           /\ store[id].payload.source = SourceOf(r))
    /\ [][\A r \in IngestRuns :
            ( /\ calls'[r]["embed-and-upsert"] = calls[r]["embed-and-upsert"] + 1
              /\ out'[r].kind = "ok"
              /\ store = <<>> )
            => /\ Cardinality(DOMAIN store') = Len(Batch(r).chunks)
               /\ out'[r].value = [ingested |-> Len(Batch(r).chunks)]
               /\ \A id \in DOMAIN store' :
                     store'[id].payload.source = SourceOf(r)]_vars

\* The ingest of a one-chunk document under a source_id of its own
\* succeeded into the empty store: ingested = 1 and one record.
C14_Witness ==
    \E r \in IngestRuns :
        /\ run_state[r] = "succeeded"
        /\ "source_id" \in DOMAIN event[r].data
        /\ event[r].data.source_id # event[r].data.pdf_path
        /\ result[r] = [ingested |-> 1]
        /\ Cardinality(DOMAIN store) = 1
        /\ \A id \in DOMAIN store :
              store[id].payload.source = event[r].data.source_id

\* C15: an embed-and-upsert of run r that succeeds leaves, for every index i
\* below the chunk count, under the id hash(sourceId + ":" + i), the record
\* with the embedding vector of chunk i and the text of chunk i; the
\* embeddings it got were in chunk order.
C15_ChunkOrderKept ==
    [][\A r \in IngestRuns :
          ( /\ calls'[r]["embed-and-upsert"] = calls[r]["embed-and-upsert"] + 1
            /\ out'[r].kind = "ok" )
          => LET chunks == Batch(r).chunks
             IN \A i \in 0..(Len(chunks) - 1) :
                   LET rec == store'[ExpectedId(Batch(r).source_id, i)]
                   IN /\ ExpectedId(Batch(r).source_id, i) \in DOMAIN store'
                      /\ out'[r].embedded.texts[i + 1] = chunks[i + 1]
                      /\ out'[r].embedded.value[i + 1] = <<"vec", chunks[i + 1]>>
                      /\ rec.vector = <<"vec", chunks[i + 1]>>
                      /\ rec.payload.text = chunks[i + 1]
                      /\ \A j \in 0..(Len(chunks) - 1) :
                            chunks[j + 1] # chunks[i + 1]
                               => /\ rec.vector # <<"vec", chunks[j + 1]>>
                                  /\ rec.payload.text # chunks[j + 1]]_vars

\* The embed-and-upsert of a batch of two different chunks has just written
\* its records.
C15_Witness ==
    \E r \in IngestRuns :
        /\ Cached(r, "load-and-chunk")
        /\ Batch(r).chunks = <<"t1", "t2">>
        /\ running[r] = 1
        /\ out[r].kind = "ok"
        /\ out[r].embedded.value = << <<"vec", "t1">>, <<"vec", "t2">> >>
        /\ store[ExpectedId(Batch(r).source_id, 0)].payload.text = "t1"
        /\ store[ExpectedId(Batch(r).source_id, 1)].payload.text = "t2"

\* C16: in every run the second step's function is invoked only when the
\* first step is recorded succeeded, in the first attempt and in every
\* retry, and it is given the recorded output: embed-and-upsert the batch
\* load-and-chunk recorded (and it embeds those chunks), the generation step
\* the context block made of the contexts embed-and-search recorded.
C16_StepsInOrder ==
    /\ [](\A r \in Runs :
            calls[r][StepsOf(r)[2]] > 0 => Cached(r, StepsOf(r)[1]))
    /\ [][\A r \in Runs :
            calls'[r][StepsOf(r)[2]] = calls[r][StepsOf(r)[2]] + 1
            => /\ Cached(r, StepsOf(r)[1])
               /\ steps'[r][StepsOf(r)[1]] = steps[r][StepsOf(r)[1]]
               /\ calls'[r][StepsOf(r)[1]] = calls[r][StepsOf(r)[1]]
               /\ r \in IngestRuns
                     => /\ out'[r].given = steps[r]["load-and-chunk"].result
                        /\ out'[r].embedded.texts =
                              steps[r]["load-and-chunk"].result.chunks
               /\ r \in QueryRuns
                     => LET contexts == steps[r]["embed-and-search"].result.contexts
                        IN /\ Len(out'[r].given.context_block) = Len(contexts)
                           /\ \A i \in 1..Len(contexts) :
                                 out'[r].given.context_block[i] = <<"- ", contexts[i]>>]_vars

\* The generation step is invoked a second time, on a retry, with the two
\* contexts the search step recorded.
C16_Witness ==
    \E r \in QueryRuns :
        /\ Cached(r, "embed-and-search")
        /\ steps[r]["embed-and-search"].result.contexts = <<"t1", "t2">>
        /\ steps[r]["llm-answer-bedrock"].attempt = 1
        /\ running[r] = 1
        /\ calls[r]["llm-answer-bedrock"] = 2
        /\ out[r].given.context_block = << <<"- ", "t1">>, <<"- ", "t2">> >>

\* The records the store holds for a source.
RecordsOf(source_id) == { id \in DOMAIN store : store[id].payload.source = source_id }

\* Two ingest runs of one source.
SameSource(r, r2) ==
    /\ r \in IngestRuns /\ r2 \in IngestRuns
    /\ r # r2
    /\ SourceOf(r) = SourceOf(r2)

\* C17: once two ingest runs of the same source have both succeeded, however
\* their executions interleaved, the store holds for that source exactly the
\* deterministic ids of the two batches, one record under each, and each of
\* these records is the one either run writes for that index; and an
\* embed-and-upsert that succeeds after the other run's has written leaves
\* its own records under its ids (the later write wins).
C17_ConcurrentReingest ==
    /\ [](\A r, r2 \in Runs :
            ( /\ SameSource(r, r2)
              /\ run_state[r] = "succeeded"
              /\ run_state[r2] = "succeeded" )
            => LET n == Len(Batch(r).chunks)
                   n2 == Len(Batch(r2).chunks)
                   src == SourceOf(r)
               IN /\ RecordsOf(src) = IdsOf(src, n) \cup IdsOf(src, n2)
                  /\ Cardinality(RecordsOf(src)) = (IF n >= n2 THEN n ELSE n2)
                  /\ \A i \in 0..((IF n >= n2 THEN n ELSE n2) - 1) :
                        \/ /\ i < n
                           /\ store[ExpectedId(src, i)] = ExpectedRecord(Batch(r), i + 1)
                        \/ /\ i < n2
                           /\ store[ExpectedId(src, i)] = ExpectedRecord(Batch(r2), i + 1))
    /\ [][\A r, r2 \in Runs :
            ( /\ SameSource(r, r2)
              /\ calls[r2]["embed-and-upsert"] > 0
              /\ calls'[r]["embed-and-upsert"] = calls[r]["embed-and-upsert"] + 1
              /\ out'[r].kind = "ok" )
            => \A i \in 0..(Len(Batch(r).chunks) - 1) :
                  /\ ExpectedId(SourceOf(r), i) \in DOMAIN store'
                  /\ store'[ExpectedId(SourceOf(r), i)] = ExpectedRecord(Batch(r), i + 1)]_vars

\* Two runs of the source a.pdf with different chunks are both inside
\* embed-and-upsert, both have written, and the record of index 0 is that
\* of the run that wrote t1 there.
C17_Witness ==
    /\ SameSource("r1", "r2")
    /\ \A r \in Runs :
          /\ Cached(r, "load-and-chunk")
          /\ running[r] = 1
          /\ out[r].kind = "ok"
    /\ Batch("r1").chunks # Batch("r2").chunks
    /\ store[ExpectedId("a.pdf", 0)].payload.text = "t1"
    /\ Cardinality(DOMAIN store) = 2

\* The call of embed_texts of the function in flight of run r failed for
\* some text: it raised, or it returned without a vector for that text.
EmbeddingFailed(o) ==
    \/ o.embedded.raised
    \/ \E i \in DOMAIN o.embedded.texts : o.embedded.value[i] = <<>>

\* C18: an attempt of embed-and-upsert in which the embedding of some chunk
\* fails leaves the store as it was and is an error: no record is written,
\* of the chunks before the failing one or of any other.
C18_EmbedFailureWritesNothing ==
    [][\A r \in IngestRuns :
          ( /\ calls'[r]["embed-and-upsert"] = calls[r]["embed-and-upsert"] + 1
            /\ EmbeddingFailed(out'[r]) )
          => /\ store' = store
             /\ out'[r].kind = "error"]_vars

\* An attempt of embed-and-upsert over two chunks has raised in embed_texts,
\* the store holding none of its records.
C18_Witness ==
    \E r \in IngestRuns :
        /\ Cached(r, "load-and-chunk")
        /\ running[r] = 1
        /\ out[r].kind = "error"
        /\ out[r].embedded.raised
        /\ out[r].embedded.texts = <<"t1", "t2">>
        /\ RecordsOf(SourceOf(r)) = {}

\* Run r has just made a call of embed-and-upsert.
Upserting(r) ==
    /\ r \in IngestRuns
    /\ calls'[r]["embed-and-upsert"] = calls[r]["embed-and-upsert"] + 1

\* C19: no step deletes a record; a record changes or appears only in an
\* embed-and-upsert of a run of the record's source, which leaves the text
\* of its chunk i under index i and the records of the indexes it has no
\* chunk for as they were; so the store holds for every source one record
\* per index below the largest chunk count ingested for it, that count at
\* least the count of every run of the source that succeeded, and no record
\* of a source no run ingested.
C19_IngestNeverDeletes ==
    /\ [][/\ DOMAIN store \subseteq DOMAIN store'
          /\ \A id \in DOMAIN store' :
                (id \notin DOMAIN store \/ store'[id] # store[id])
                => \E r \in Runs :
                      /\ Upserting(r)
                      /\ out'[r].kind = "ok"
                      /\ store'[id].payload.source = SourceOf(r)
                      /\ id \in DOMAIN store => store[id].payload.source = SourceOf(r)
                      /\ \E i \in 0..(Len(Batch(r).chunks) - 1) :
                            /\ id = ExpectedId(SourceOf(r), i)
                            /\ store'[id].payload.text = Batch(r).chunks[i + 1]]_vars
    /\ [](\A id \in DOMAIN store :
            \E r \in IngestRuns : store[id].payload.source = SourceOf(r))
    /\ [](\A r \in IngestRuns :
            LET src == SourceOf(r)
                counts == { Len(Batch(r2).chunks) :
                              r2 \in { x \in IngestRuns :
                                         /\ SourceOf(x) = src
                                         /\ Cached(x, "load-and-chunk") } }
            IN /\ \E m \in counts \cup {0} : RecordsOf(src) = IdsOf(src, m)
               /\ run_state[r] = "succeeded"
                     => IdsOf(src, Len(Batch(r).chunks)) \subseteq RecordsOf(src))

\* A two-chunk and then a one-chunk ingest of the source a.pdf succeeded:
\* index 0 has the text of the later ingest, index 1 is still there with the
\* text of the earlier one.
C19_Witness ==
    /\ SameSource("r1", "r2")
    /\ \A r \in Runs : run_state[r] = "succeeded"
    /\ Len(Batch("r1").chunks) = 2
    /\ Len(Batch("r2").chunks) = 1
    /\ store[ExpectedId("a.pdf", 0)].payload.text = Batch("r2").chunks[1]
    /\ store[ExpectedId("a.pdf", 1)].payload.text = Batch("r1").chunks[2]
    /\ Batch("r1").chunks[1] # Batch("r2").chunks[1]

=============================================================================
